---- MODULE Spec2Model ----
(***************************************************************************)
(* Model of src/mhc.py: the report-acquisition and metric-derivation       *)
(* pipeline of the Facebook Ads dashboard (request_report,                  *)
(* download_report, parse_csv_content, get_mapping_ref and main).           *)
(*                                                                         *)
(* A table (DataFrame) is a sequence of rows; a row is a function from      *)
(* column names (the CSV header / sheet header strings the code reads) to   *)
(* cell values.  Money and the ROAS factor are fixed-point numbers counted  *)
(* in halves (the value 3 stands for 1.5); derived ratios are counted in    *)
(* hundredths, which is what .round(2) keeps.  The wall clock is counted    *)
(* in ticks of half a day.                                                  *)
(***************************************************************************)
EXTENDS Integers, Sequences, FiniteSets, TLC

VARIABLES
    upstream,           \* what the ads API answers for each account
    sheet,              \* what the spreadsheet service answers
    now,                \* wall clock, in ticks
    cache,              \* st.cache_data entries of request_report, per account
    yesterday_data,     \* st.session_state.yesterday_data
    last_7_days_data,   \* st.session_state.last_7_days_data
    last_30d_data,      \* st.session_state.last_30d_data
    last_90d_data,      \* st.session_state.last_90d_data
    mapping_ref,        \* st.session_state.mapping_ref
    pc,                 \* position of the script run inside main
    idx,                \* position of the account loop
    dfs,                \* main's local list of fetched tables
    log                 \* calls issued and messages shown by the current run

vars == <<upstream, sheet, now, cache, yesterday_data, last_7_days_data,
          last_30d_data, last_90d_data, mapping_ref, pc, idx, dfs, log>>

session == <<yesterday_data, last_7_days_data, last_30d_data, last_90d_data,
             mapping_ref>>

----------------------------------------------------------------------------
(* Bounds of the model.                                                    *)

MaxRows == 2            \* rows in the report of the account with free data
MaxClock == 2           \* last tick the clock reaches

(* Program constants.                                                      *)

WaitSeconds == 60       \* time1 passed by main
TTL == 2                \* ttl=86400 seconds: one day, two ticks


Accounts == <<1, 2, 3>> \* the three account ids of main, in list order
AccountIds == {Accounts[i] : i \in 1..Len(Accounts)}
AccountName(a) == <<"shop one", "shop two", "shop three">>[a]

(* What a name can hold: nothing (the key is not in st.session_state),     *)
(* Python's None, a table, or the text of a CSV export.                     *)
Absent == [is |-> "absent", rows |-> <<>>]
None == [is |-> "None", rows |-> <<>>]
DataFrame(rows) == [is |-> "df", rows |-> rows]
CsvText(rows) == [is |-> "csv", rows |-> rows]  \* a header line and rows
Blank == [is |-> "blank", rows |-> <<>>]        \* no line that is not blank
Null == "NaN"                                   \* a missing cell

----------------------------------------------------------------------------
(* Column names.                                                           *)

cAccount == "Account name"
cCampaign == "Campaign name"
cAdSet == "Ad Set Name"
cAd == "Ad name"
cStarts == "Reporting starts"
cImpr == "Impressions"
cLinkClicks == "Link clicks"
cAmount == "Amount spent (INR)"
cRoas == "Website purchase ROAS (return on ad spend)"
cType == "Creative Type"
cTheme == "Creative Theme"
cCat == "Product Cat"
cInfl == "Influencer Name"
cObj == "Campaign Objective"
cDate == "Date"
cSpend == "spend"
cClicks == "clicks"
cRevenue == "Revenue"

JoinKeys == <<cAccount, cCampaign, cAdSet, cAd>>
AttrCols == {cType, cTheme, cCat, cInfl, cObj}

----------------------------------------------------------------------------
(* Generic helpers on sequences and numbers.                               *)

Range(s) == {s[i] : i \in 1..Len(s)}

RECURSIVE Flatten(_)
Flatten(ss) == IF ss = <<>> THEN <<>> ELSE Head(ss) \o Flatten(Tail(ss))

RECURSIVE SumCol(_, _)
SumCol(t, c) == IF t = <<>> THEN 0 ELSE Head(t)[c] + SumCol(Tail(t), c)

(* numpy's round: to the nearest integer, ties to the even one; n/d with   *)
(* n >= 0 and d > 0.                                                       *)
RoundHalfEven(n, d) ==
    LET q == n \div d
        r == n % d
    IN  IF 2 * r < d THEN q
        ELSE IF 2 * r > d THEN q + 1
        ELSE IF q % 2 = 0 THEN q ELSE q + 1

(* datetime.now().date() at tick t: a day has two ticks.                   *)
DateOf(t) == t \div 2

----------------------------------------------------------------------------
(* The data the two external services can hold.                            *)

ReportRow(acct, camp, adset, ad, day, impr, clicks, amount, roas) ==
    (cAccount :> acct) @@ (cCampaign :> camp) @@ (cAdSet :> adset) @@
    (cAd :> ad) @@ (cStarts :> day) @@ (cImpr :> impr) @@
    (cLinkClicks :> clicks) @@ (cAmount :> amount) @@ (cRoas :> roas)

MappingRow(acct, camp, adset, ad, type, theme, cat, infl, obj) ==
    (cAccount :> acct) @@ (cCampaign :> camp) @@ (cAdSet :> adset) @@
    (cAd :> ad) @@ (cType :> type) @@ (cTheme :> theme) @@ (cCat :> cat) @@
    (cInfl :> infl) @@ (cObj :> obj)

(* Every account can hold one plain row, dated the day before day 0.       *)
FixedRow(a) == ReportRow(AccountName(a), "c1", "s1", "d1", -1, 10, 1, 4, 2)

(* Calendar days a report row can carry: around the window edges of the    *)
(* days the clock reaches.                                                 *)
Dates == {-95, -30, -29, -7, -6, -1, 0, 1}
DatedRows == {ReportRow(AccountName(2), "c1", "s1", "d1", d, 10, 1, 4, 2) : d \in Dates}

(* The rows account 1 can hold: two ads; a day with fractional spend and    *)
(* ROAS factor (1.5 each), and a day without impressions and spend.         *)
FreeRows ==
    <<ReportRow(AccountName(1), "c1", "s1", "d1", -1, 10, 1, 3, 3),
      ReportRow(AccountName(1), "c2", "s2", "d2", -3, 0, 1, 0, 3),
      ReportRow(AccountName(1), "c2", "s2", "d2", -1, 10, 1, 3, 3),
      ReportRow(AccountName(1), "c1", "s1", "d1", -3, 0, 1, 0, 3)>>

(* A report holds a row once; the reports are the selections of up to n     *)
(* rows of S, in the order of S.                                            *)
ReportsUpTo(S, n) ==
    LET Pick(I) ==
            LET F[k \in 0..Len(S)] ==
                    IF k = 0 THEN <<>>
                    ELSE IF k \in I THEN Append(F[k - 1], S[k]) ELSE F[k - 1]
            IN  F[Len(S)]
    IN  {Pick(I) : I \in {J \in SUBSET (1..Len(S)) : J # {} /\ Cardinality(J) <= n}}

(* A cell of a numeric column whose text is not a number.                   *)
Unparsable == -1

(* The header line of an export, and a data line with the wrong number of  *)
(* fields: one field short (the last one is missing) or one field long.     *)
ReportHeader == DOMAIN FixedRow(1)
Short(r) == [c \in DOMAIN r \ {cRoas} |-> r[c]]
Long(r) == r @@ ("(field 10)" :> "x")

(* The exports with one such line among up to n lines of S.  A long line    *)
(* is never the first data line: read_csv would take that line's width as   *)
(* the table's and read the first column as the index.                      *)
ReportsWithOneBadLine(S, n) ==
    UNION {{[t EXCEPT ![k] = Short(t[k])] : k \in 1..Len(t)}
               \cup {[t EXCEPT ![k] = Long(t[k])] : k \in 2..Len(t)} :
           t \in ReportsUpTo(S, n)}

(* What the ads API answers for one account: the create-report call gives   *)
(* an error payload, no job id, or a job; the export call gives a status    *)
(* and a payload: blank text, or a header line and rows.                    *)
Failed(kind) == [create |-> kind, status |-> 0, payload |-> Blank]
Exported(status, payload) == [create |-> "job", status |-> status, payload |-> payload]
Failures == {Failed("error"), Failed("nojob"), Exported(500, Blank),
             Exported(200, Blank), Exported(200, CsvText(<<>>))}
Report(rows) == Exported(200, CsvText(rows))

(* What the spreadsheet service answers: unavailable, or the records of     *)
(* the worksheet (none for an empty worksheet).                             *)
Unavailable == [up |-> FALSE, records |-> <<>>]
Worksheet(records) == [up |-> TRUE, records |-> records]
MapA == MappingRow(AccountName(1), "c1", "s1", "d1", "video", "festive", "shoes", "asha", "sales")
MapB == MappingRow(AccountName(1), "c1", "s1", "d1", "image", "plain", "bags", "ravi", "leads")
MapC == MappingRow(AccountName(2), "c1", "s1", "d1", "image", "plain", "bags", "ravi", "leads")
SheetUnique == Worksheet(<<MapA, MapC>>)
SheetDuplicate == Worksheet(<<MapA, MapB, MapC>>)
SheetEmpty == Worksheet(<<>>)

World(u, s) == [upstream |-> u, sheet |-> s]

(* Mixes of failures and plain rows over the three accounts: any outcome    *)
(* for account 1, a failure or a plain row for the other two.               *)
FailureWorlds ==
    {World([a \in AccountIds |->
               IF a = 1 THEN (IF f = Failed("") THEN Report(<<FixedRow(1)>>) ELSE f)
               ELSE IF g[a - 1] THEN Report(<<FixedRow(a)>>)
               ELSE IF a = 2 THEN Exported(500, Blank) ELSE Failed("error")], s) :
        f \in Failures \cup {Failed("")},
        g \in [1..2 -> BOOLEAN],
        s \in {Unavailable, SheetUnique}}

(* One account with a row of any date.                                     *)
DateWorlds ==
    {World([a \in AccountIds |->
               IF a = 2 THEN Report(<<r>>)
               ELSE IF a = 3 THEN f ELSE Failed("error")], SheetUnique) :
        r \in DatedRows, f \in {Failed("error"), Report(<<FixedRow(3)>>)}}

(* Account 1 with any report of free rows, beside a plain or failed         *)
(* account 2, against any worksheet.                                        *)
DataWorlds ==
    {World([a \in AccountIds |->
               IF a = 1 THEN Report(t) ELSE IF a = 2 THEN f
               ELSE Failed("nojob")], s) :
        t \in ReportsUpTo(FreeRows, MaxRows),
        f \in {Exported(500, Blank), Report(<<FixedRow(2)>>)},
        s \in {Unavailable, SheetEmpty, SheetUnique, SheetDuplicate}}

(* Account 1 with an export that holds one line of the wrong width, beside  *)
(* a plain account 2; the spreadsheet service is unavailable, so the run    *)
(* stops at the display gate and computes nothing from the cells.           *)
BadLineWorlds ==
    {World([a \in AccountIds |->
               IF a = 1 THEN Report(t) ELSE IF a = 2 THEN Report(<<FixedRow(2)>>)
               ELSE Failed("nojob")], Unavailable) :
        t \in ReportsWithOneBadLine(FreeRows, MaxRows)}

(* Account 1 with a row that holds such text in one of the numeric columns  *)
(* main reads; the spreadsheet service is unavailable as above.             *)
TextCellWorlds ==
    {World([a \in AccountIds |->
               IF a = 1 THEN Report(<<[FreeRows[1] EXCEPT ![c] = Unparsable]>>)
               ELSE IF a = 2 THEN Report(<<FixedRow(2)>>)
               ELSE Failed("nojob")], Unavailable) :
        c \in {cImpr, cLinkClicks, cAmount}}

(* One account with two days of round figures (impressions 1000 and 2000,   *)
(* clicks 10 and 30, spend 100 and 200, ROAS factor 2 and 3), the other     *)
(* accounts failing.                                                        *)
ScenarioRows ==
    <<ReportRow(AccountName(1), "c1", "s1", "d1", -2, 1000, 10, 200, 4),
      ReportRow(AccountName(1), "c1", "s1", "d1", -1, 2000, 30, 400, 6)>>
ScenarioWorlds ==
    {World([a \in AccountIds |->
               IF a = 1 THEN Report(ScenarioRows)
               ELSE IF a = 2 THEN Exported(500, Blank) ELSE Failed("error")],
           SheetUnique)}

Worlds ==
    FailureWorlds \cup DateWorlds \cup DataWorlds \cup BadLineWorlds
        \cup TextCellWorlds \cup ScenarioWorlds

----------------------------------------------------------------------------
(* Calls and messages of a run, in the order they happen.                  *)

Ev(kind, acnt, arg) == [ev |-> kind, acnt |-> acnt, arg |-> arg]
Returned(value, events) == [value |-> value, events |-> events]

NumericColumns == {"impressions", "clicks", "spend", "reach", "frequency"}

(* pd.to_numeric(errors='coerce') on one cell: a number stays, text that    *)
(* is no number becomes a missing cell.                                     *)
ToNumeric(v) == IF v = Unparsable THEN Null ELSE v

(* pd.read_csv(on_bad_lines='warn') on the data lines: a line with more     *)
(* fields than the header is skipped with a ParserWarning; a line with      *)
(* fewer fields is kept, its missing fields read as missing cells.          *)
read_csv(acnt, lines) ==
    LET kept == SelectSeq(lines, LAMBDA r : DOMAIN r \subseteq ReportHeader)
        skipped == SelectSeq(lines, LAMBDA r : ~(DOMAIN r \subseteq ReportHeader))
    IN  Returned(
            DataFrame([i \in 1..Len(kept) |->
                [c \in ReportHeader |->
                    IF c \in DOMAIN kept[i] THEN kept[i][c] ELSE Null]]),
            [i \in 1..Len(skipped) |-> Ev("ParserWarning", acnt, "Skipping line")])

(* parse_csv_content: None has no split(), blank text is reported as        *)
(* empty, anything else is read as a table.                                 *)
parse_csv_content(acnt, csv_content) ==
    IF csv_content = None
    THEN Returned(None, <<Ev("error", acnt, "Error parsing CSV")>>)
    ELSE IF csv_content = Blank
    THEN Returned(None, <<Ev("error", acnt, "Received empty CSV content")>>)
    ELSE read_csv(acnt, csv_content.rows)

(* st.error(f"Error downloading report: Status {response.status_code}")     *)
StatusError(acnt, status) ==
    [ev |-> "error", acnt |-> acnt, arg |-> "Error downloading report",
     status |-> status]

(* download_report that repeats an export call that gave a failure status.  *)
download_reportRetrying(acnt, resp, time1) ==
    LET calls == <<Ev("sleep", acnt, time1), Ev("get", acnt, resp.status)>>
    IN  IF resp.status # 200
        THEN Returned(None, calls \o <<Ev("get", acnt, resp.status),
                                       StatusError(acnt, resp.status)>>)
        ELSE Returned(resp.payload, calls)

(* download_report: sleep, one export call, the text or None.              *)
download_report(acnt, resp, time1) ==
    LET calls == <<Ev("sleep", acnt, time1), Ev("get", acnt, resp.status)>>
    IN  IF resp.status # 200
        THEN Returned(None, calls \o <<StatusError(acnt, resp.status)>>)
        ELSE Returned(resp.payload, calls)

(* request_report that repeats a create-report call that gave no job.      *)
request_reportRetrying(acnt, resp, time1) ==
    LET post == <<Ev("post", acnt, resp.create)>>
    IN  IF resp.create = "error"
        THEN Returned(None, post \o post \o <<Ev("error", acnt, "Facebook API Error")>>)
        ELSE IF resp.create # "job"
        THEN Returned(None, post \o post
                            \o <<Ev("error", acnt, "No report_run_id received")>>)
        ELSE LET got == download_report(acnt, resp, time1)
                 parsed == parse_csv_content(acnt, got.value)
                 df == parsed.value
                 events == post \o got.events \o parsed.events
             IN  IF df # None /\ df.rows # <<>>
                 THEN Returned(DataFrame(df.rows), events)
                 ELSE Returned(None, events)

(* request_report, uncached: one create-report call, then download, parse   *)
(* and the numeric coercion of the columns it names.                        *)
request_report(acnt, resp, time1) ==
    LET post == <<Ev("post", acnt, resp.create)>>
    IN  IF resp.create = "error"
        THEN Returned(None, post \o <<Ev("error", acnt, "Facebook API Error")>>)
        ELSE IF resp.create # "job"
        THEN Returned(None, post \o <<Ev("error", acnt, "No report_run_id received")>>)
        ELSE LET got == download_report(acnt, resp, time1)
                 parsed == parse_csv_content(acnt, got.value)
                 df == parsed.value
                 events == post \o got.events \o parsed.events
             IN  IF df # None /\ df.rows # <<>>
                 THEN Returned(
                        DataFrame([i \in 1..Len(df.rows) |->
                            [c \in DOMAIN df.rows[i] |->
                                IF c \in NumericColumns THEN ToNumeric(df.rows[i][c])
                                ELSE df.rows[i][c]]]),
                        events)
                 ELSE Returned(None, events)

----------------------------------------------------------------------------
(* Table operations of pandas, as main uses them.                          *)

(* pd.concat that puts the later tables first.                             *)
concatReversed(tables) ==
    DataFrame(Flatten([i \in 1..Len(tables) |-> tables[Len(tables) + 1 - i].rows]))

concat(tables) == DataFrame(Flatten([i \in 1..Len(tables) |-> tables[i].rows]))

Between(t, c, after, upto) ==
    SelectSeq(t, LAMBDA r : r[c] > after /\ r[c] <= upto)

OnDay(t, c, day) == SelectSeq(t, LAMBDA r : r[c] = day)

(* pd.merge(left, right, on=keys, how='left'): every left row once per      *)
(* matching right row, in the right table's order, or once with null        *)
(* right-hand columns.                                                      *)
Matches(l, right, keys) ==
    SelectSeq(right, LAMBDA r : \A i \in 1..Len(keys) : r[keys[i]] = l[keys[i]])

(* pd.merge(how='inner'): a left row without a match is dropped.            *)
mergeInner(left, right, keys) ==
    LET added == DOMAIN right.rows[1] \ Range(keys)
        joined(l) ==
            LET m == Matches(l, right.rows, keys)
            IN  [i \in 1..Len(m) |-> l @@ [c \in added |-> m[i][c]]]
    IN  DataFrame(Flatten([i \in 1..Len(left.rows) |-> joined(left.rows[i])]))

merge(left, right, keys) ==
    LET added == DOMAIN right.rows[1] \ Range(keys)
        joined(l) ==
            LET m == Matches(l, right.rows, keys)
            IN  IF m = <<>> THEN <<l @@ [c \in added |-> Null]>>
                ELSE [i \in 1..Len(m) |-> l @@ [c \in added |-> m[i][c]]]
    IN  DataFrame(Flatten([i \in 1..Len(left.rows) |-> joined(left.rows[i])]))

(* DataFrame.rename(columns={old: new}).                                    *)
rename(t, old, new) ==
    [i \in 1..Len(t) |->
        LET r == t[i]
        IN  IF old \in DOMAIN r
            THEN [c \in (DOMAIN r \ {old}) \cup {new} |->
                     IF c = new THEN r[old] ELSE r[c]]
            ELSE r]

(* Series.round() of a value counted in halves.                            *)
round(x) == 2 * RoundHalfEven(x, 2)

(* The derivation step of main on one table: the three renames, Revenue     *)
(* from the ROAS factor and spend, then spend rounded.                      *)
WithRevenue(t) ==
    [i \in 1..Len(t) |->
        (cRevenue :> 2 * RoundHalfEven(t[i][cRoas] * t[i][cSpend], 4)) @@ t[i]]

WithRoundedSpend(t) ==
    [i \in 1..Len(t) |-> [t[i] EXCEPT ![cSpend] = round(t[i][cSpend])]]

Derive(df) ==
    DataFrame(WithRoundedSpend(WithRevenue(
        rename(rename(rename(df.rows, cAmount, cSpend), cLinkClicks, cClicks),
               cStarts, cDate))))

----------------------------------------------------------------------------
(* Grouping and the derived metrics.                                       *)

Columns(rows) == DOMAIN rows[1]

(* Only the columns the join adds can hold a missing cell.                  *)
IsNull(r, c) == c \in AttrCols /\ r[c] = Null

(* groupby(keys).agg(sum): one row per combination of key values; rows      *)
(* with a missing key cell belong to no group (dropna).                     *)
groupby(rows, keys, sums) ==
    LET grouped == {i \in 1..Len(rows) : \A c \in keys : ~IsNull(rows[i], c)}
        keyOf(i) == [c \in keys |-> rows[i][c]]
        members(k) == SelectSeq(rows, LAMBDA r :
                          \A c \in keys : ~IsNull(r, c) /\ r[c] = k[c])
    IN  {k @@ [c \in sums |-> SumCol(members(k), c)] : k \in {keyOf(i) : i \in grouped}}

(* A derived cell: a number n/d, or what the division by zero leaves.       *)
NaN == <<"nan", 0, 0>>
Inf == <<"inf", 1, 0>>
divide(n, d) == IF d # 0 THEN <<"num", n, d>> ELSE IF n = 0 THEN NaN ELSE Inf
round2(cell) ==
    IF cell[1] = "num" THEN <<"num", RoundHalfEven(100 * cell[2], cell[3]), 100>>
    ELSE cell
(* .astype(str) + '%'                                                       *)
percent(cell) == cell \o <<"%">>

CTR(g) == round2(divide(100 * g[cClicks], g[cImpr]))
CPM(g) == round2(divide(1000 * g[cSpend], 2 * g[cImpr]))
ROAS(g) == divide(g[cRevenue], g[cSpend])

(* A ratio column added to the group rows.                                 *)
WithCTR(groups) == {("CTR" :> percent(CTR(g))) @@ g : g \in groups}
WithCPM(groups) == {("CPM" :> CPM(g)) @@ g : g \in groups}
WithROAS(groups) == {("ROAS" :> ROAS(g)) @@ g : g \in groups}
WithROAS2(groups) == {("ROAS" :> round2(ROAS(g))) @@ g : g \in groups}

(* The daily metrics of the Home and Comparative tabs.                      *)
DailyMetrics(rows) ==
    WithROAS2(WithCPM(WithCTR(
        groupby(rows, {cDate}, {cClicks, cImpr, cSpend, cRevenue}))))

(* The metrics of the Product-Category tab.                                 *)
ProductMetrics(rows) ==
    WithROAS2(WithCPM(WithCTR(
        groupby(rows, {cDate, cCat}, {cSpend, cImpr, cClicks, cRevenue}))))

(* ROAS by product category of one table.                                   *)
CategoryRoas(rows) == WithROAS(groupby(rows, {cCat}, {cSpend, cRevenue}))

----------------------------------------------------------------------------
(* The filter widgets.                                                      *)

Dims == <<cAccount, cCampaign, cAdSet, cAd, cType, cTheme, cCat, cInfl, cObj>>
DimSet == Range(Dims)

(* Series.unique(): the values of a column, a missing one included.         *)
unique(rows, c) == {rows[i][c] : i \in 1..Len(rows)}

(* `col.isin(chosen) if chosen else True`, joined by &: Python's True when  *)
(* every chosen list is empty, a row mask otherwise.                        *)
IsPlainTrue(sel, cols) == \A c \in cols : sel[c] = {}
Masked(rows, sel, cols) ==
    SelectSeq(rows, LAMBDA r : \A c \in cols : sel[c] = {} \/ r[c] \in sel[c])

NoSelection == [c \in DimSet |-> {}]

(* The options a multiselect offers, given the lists chosen before it.      *)
Options(rows, sel, c) ==
    IF c = cCampaign THEN unique(Masked(rows, sel, {cAccount}), c)
    ELSE IF c = cAdSet THEN unique(Masked(rows, sel, {cAccount, cCampaign}), c)
    ELSE IF c = cAd THEN unique(Masked(rows, sel, {cAccount, cCampaign, cAdSet}), c)
    ELSE unique(rows, c)

(* The dimensions whose options are computed from a mask of the lists      *)
(* chosen before them, and the computation of such a list: with every       *)
(* earlier list empty the mask is Python's True and last_90d_data[True]     *)
(* raises KeyError.                                                         *)
Cascaded == <<cAccount, cCampaign, cAdSet, cAd>>
Earlier(k) == {Cascaded[j] : j \in 1..(k - 1)}
Offered(rows, sel, k) ==
    IF k > 1 /\ IsPlainTrue(sel, Earlier(k))
    THEN [error |-> "KeyError: True", values |-> {}]
    ELSE [error |-> "", values |-> Options(rows, sel, Cascaded[k])]

(* What a user can choose: only offered options, and nothing in a widget    *)
(* that is not drawn because the tab has stopped before it (df[True]        *)
(* raises KeyError when no account is chosen).                              *)
Choosable(rows, sel) ==
    /\ \A c \in DimSet : sel[c] \subseteq Options(rows, sel, c)
    /\ sel[cAccount] = {} => sel = NoSelection

Picks(rows) == UNION {{<<c, v>> : v \in unique(rows, c)} : c \in DimSet}
Chosen(P) == [c \in DimSet |-> {p[2] : p \in {q \in P : q[1] = c}}]

(* The selections explored: those that choose up to two values over all    *)
(* widgets; among them, those that choose one account at most.              *)
Selections(rows) ==
    {sel \in {Chosen({p, q}) : p, q \in Picks(rows)} \cup {NoSelection} :
        Choosable(rows, sel)}
AccountSelections(rows) ==
    {NoSelection} \cup {Chosen({<<cAccount, v>>}) : v \in unique(rows, cAccount)}

----------------------------------------------------------------------------
(* The three tabs.  Each runs inside its own try: what it computed before   *)
(* an exception has been drawn, the rest has not.                           *)

Joined(df) == AttrCols \subseteq Columns(df.rows)

NotDrawn == {}

(* Home: ROAS by category for the four tables, then the nine filters and    *)
(* the daily metrics of the filtered rows.                                  *)
Home(sel) ==
    LET rows == last_90d_data.rows
        perCategory ==
            [product_cat_metrics |->
                 WithROAS2(groupby(rows, {cCat}, {cSpend, cClicks, cRevenue})),
             df_yest |-> CategoryRoas(yesterday_data.rows),
             df_7 |-> CategoryRoas(last_7_days_data.rows),
             df_30 |-> CategoryRoas(last_30d_data.rows),
             df_90_daywise |->
                 WithROAS(groupby(rows, {cDate, cCat}, {cSpend, cRevenue}))]
        none == [product_cat_metrics |-> NotDrawn, df_yest |-> NotDrawn,
                 df_7 |-> NotDrawn, df_30 |-> NotDrawn, df_90_daywise |-> NotDrawn]
        stopped(msg, tables) ==
            [tab |-> "home", error |-> msg, sel |-> sel, tables |-> tables,
             filtered_data |-> <<>>, daily_metrics |-> NotDrawn]
    IN  IF ~Joined(last_90d_data) THEN stopped("KeyError: 'Product Cat'", none)
        ELSE IF IsPlainTrue(sel, {cAccount}) THEN stopped("KeyError: True", perCategory)
        ELSE IF IsPlainTrue(sel, DimSet) THEN stopped("KeyError: True", perCategory)
        ELSE LET filtered_data == Masked(rows, sel, DimSet)
             IN  [tab |-> "home", error |-> "", sel |-> sel, tables |-> perCategory,
                  filtered_data |-> filtered_data,
                  daily_metrics |-> DailyMetrics(filtered_data)]

(* Comparative Views: two selections over the same nine filters.            *)
Comparative(sel1, sel2) ==
    LET rows == last_90d_data.rows
        stopped(msg) ==
            [tab |-> "comparative", error |-> msg, sel |-> sel1, sel2 |-> sel2,
             filtered_data1 |-> <<>>, filtered_data2 |-> <<>>,
             daily_metrics1 |-> NotDrawn, daily_metrics2 |-> NotDrawn]
    IN  IF IsPlainTrue(sel1, {cAccount}) THEN stopped("KeyError: True")
        ELSE IF ~Joined(last_90d_data) THEN stopped("KeyError: 'Creative Type'")
        ELSE IF IsPlainTrue(sel2, {cAccount}) THEN stopped("KeyError: True")
        ELSE IF IsPlainTrue(sel1, DimSet) \/ IsPlainTrue(sel2, DimSet)
        THEN stopped("KeyError: True")
        ELSE LET filtered_data1 == Masked(rows, sel1, DimSet)
                 filtered_data2 == Masked(rows, sel2, DimSet)
             IN  [tab |-> "comparative", error |-> "", sel |-> sel1, sel2 |-> sel2,
                  filtered_data1 |-> filtered_data1,
                  filtered_data2 |-> filtered_data2,
                  daily_metrics1 |-> DailyMetrics(filtered_data1),
                  daily_metrics2 |-> DailyMetrics(filtered_data2)]

(* Product-Category View: account, campaign and category filters and a      *)
(* date range; the category filter has no `else True`.                      *)
ProductCategory(sel, start_date, end_date) ==
    LET rows == last_90d_data.rows
        stopped(msg) ==
            [tab |-> "product", error |-> msg, sel |-> sel,
             start_date |-> start_date, end_date |-> end_date,
             filtered_data_1 |-> <<>>, product_metrics |-> NotDrawn]
    IN  IF IsPlainTrue(sel, {cAccount}) THEN stopped("KeyError: True")
        ELSE IF ~Joined(last_90d_data) THEN stopped("KeyError: 'Product Cat'")
        ELSE LET filtered_data_1 ==
                     SelectSeq(Masked(rows, sel, {cAccount, cCampaign}),
                               LAMBDA r : /\ r[cCat] \in sel[cCat]
                                          /\ r[cDate] >= start_date
                                          /\ r[cDate] <= end_date)
             IN  [tab |-> "product", error |-> "", sel |-> sel,
                  start_date |-> start_date, end_date |-> end_date,
                  filtered_data_1 |-> filtered_data_1,
                  product_metrics |-> ProductMetrics(filtered_data_1)]

(* The selections of the Product-Category tab: its three multiselects.      *)
ProductSelections(rows) ==
    {sel \in Selections(rows) :
        \A c \in DimSet \ {cAccount, cCampaign, cCat} : sel[c] = {}}

----------------------------------------------------------------------------
(* The session and the script run.                                         *)

NoEntry == [value |-> Absent, at |-> 0]

Init ==
    /\ \E w \in Worlds : upstream = w.upstream /\ sheet = w.sheet
    /\ now = 0
    /\ cache = [a \in AccountIds |-> NoEntry]
    /\ yesterday_data = Absent
    /\ last_7_days_data = Absent
    /\ last_30d_data = Absent
    /\ last_90d_data = Absent
    /\ mapping_ref = Absent
    /\ pc = "idle"
    /\ idx = 1
    /\ dfs = <<>>
    /\ log = <<>>

(* An entry of st.cache_data(ttl=86400) answers while it is younger than    *)
(* the ttl.                                                                 *)
Cached(a) == cache[a] # NoEntry /\ now - cache[a].at < TTL

(* Time passes between two runs.                                           *)
Tick ==
    /\ pc = "idle"
    /\ now < MaxClock
    /\ now' = now + 1
    /\ UNCHANGED <<upstream, sheet, cache, session, pc, idx, dfs, log>>

(* The page is opened anew (a reload, another browser tab): the run that    *)
(* follows has an empty st.session_state, while the st.cache_data entries   *)
(* are those of the server process and stay.                                *)
NewSession ==
    /\ pc = "idle"
    /\ yesterday_data # Absent
    /\ yesterday_data' = Absent
    /\ last_7_days_data' = Absent
    /\ last_30d_data' = Absent
    /\ last_90d_data' = Absent
    /\ mapping_ref' = Absent
    /\ log' = <<>>
    /\ idx' = 1
    /\ dfs' = <<>>
    /\ UNCHANGED <<upstream, sheet, now, cache, pc>>

(* A script run starts: the page is loaded, or a widget was touched.  The   *)
(* fetch is entered only when yesterday_data is not in the session.         *)
(* A run that enters the fetch whatever the session holds.                 *)
RunMainAlwaysFetching ==
    /\ pc = "idle"
    /\ log' = <<>>
    /\ idx' = 1
    /\ dfs' = <<>>
    /\ pc' = "fetch"
    /\ UNCHANGED <<upstream, sheet, now, cache, session>>

RunMain ==
    /\ pc = "idle"
    /\ log' = <<>>
    /\ idx' = 1
    /\ dfs' = <<>>
    /\ pc' = IF yesterday_data = Absent THEN "fetch" ELSE "gate"
    /\ UNCHANGED <<upstream, sheet, now, cache, session>>

(* A cache that keeps tables only: a remembered failure is fetched again.   *)
FetchCachedTablesOnly ==
    /\ pc = "fetch"
    /\ idx <= Len(Accounts)
    /\ Cached(Accounts[idx])
    /\ LET acnt == Accounts[idx]
           df == cache[acnt].value
           ret == request_report(acnt, upstream[acnt], WaitSeconds)
       IN  IF df # None
           THEN /\ dfs' = Append(dfs, df)
                /\ log' = Append(log, Ev("cached", acnt, WaitSeconds))
                /\ cache' = cache
           ELSE /\ dfs' = IF ret.value # None THEN Append(dfs, ret.value) ELSE dfs
                /\ log' = log \o ret.events
                /\ cache' = [cache EXCEPT ![acnt] = [value |-> ret.value, at |-> now]]
    /\ idx' = idx + 1
    /\ UNCHANGED <<upstream, sheet, now, session, pc>>

(* One turn of the account loop, request_report answered by the cache.      *)
FetchCached ==
    /\ pc = "fetch"
    /\ idx <= Len(Accounts)
    /\ Cached(Accounts[idx])
    /\ LET acnt == Accounts[idx]
           df == cache[acnt].value
       IN  /\ dfs' = IF df # None THEN Append(dfs, df) ELSE dfs
           /\ log' = Append(log, Ev("cached", acnt, WaitSeconds))
    /\ idx' = idx + 1
    /\ UNCHANGED <<upstream, sheet, now, cache, session, pc>>

(* A turn of the account loop that issues its create-report call at once,   *)
(* while the accounts before it still wait.                                 *)
FetchUpstreamOverlapping ==
    /\ pc = "fetch"
    /\ idx <= Len(Accounts)
    /\ ~Cached(Accounts[idx])
    /\ LET acnt == Accounts[idx]
           ret == request_report(acnt, upstream[acnt], WaitSeconds)
       IN  /\ cache' = [cache EXCEPT ![acnt] = [value |-> ret.value, at |-> now]]
           /\ dfs' = IF ret.value # None THEN Append(dfs, ret.value) ELSE dfs
           /\ log' = <<Head(ret.events)>> \o log \o Tail(ret.events)
    /\ idx' = idx + 1
    /\ UNCHANGED <<upstream, sheet, now, session, pc>>

(* One turn of the account loop, request_report run and its result stored.  *)
FetchUpstream ==
    /\ pc = "fetch"
    /\ idx <= Len(Accounts)
    /\ ~Cached(Accounts[idx])
    /\ LET acnt == Accounts[idx]
           ret == request_report(acnt, upstream[acnt], WaitSeconds)
       IN  /\ cache' = [cache EXCEPT ![acnt] = [value |-> ret.value, at |-> now]]
           /\ dfs' = IF ret.value # None THEN Append(dfs, ret.value) ELSE dfs
           /\ log' = log \o ret.events
    /\ idx' = idx + 1
    /\ UNCHANGED <<upstream, sheet, now, session, pc>>

(* pd.concat(dfs) and the conversion of 'Reporting starts'.                 *)
Concat ==
    /\ pc = "fetch"
    /\ idx > Len(Accounts)
    /\ dfs # <<>>
    /\ last_90d_data' = concat(dfs)
    /\ pc' = "windows"
    /\ UNCHANGED <<upstream, sheet, now, cache, yesterday_data, last_7_days_data,
                   last_30d_data, mapping_ref, idx, dfs, log>>

(* pd.concat of an empty list raises ValueError, which nothing in main      *)
(* catches: the run ends there.                                             *)
ConcatRaises ==
    /\ pc = "fetch"
    /\ idx > Len(Accounts)
    /\ dfs = <<>>
    /\ log' = Append(log, Ev("uncaught", 0, "No objects to concatenate"))
    /\ pc' = "idle"
    /\ UNCHANGED <<upstream, sheet, now, cache, session, idx, dfs>>

(* The three windows.  main reads the clock five times: for yesterday, for  *)
(* seven_days_ago, for one_month_ago, and for the upper edge of the 30-day  *)
(* and of the 7-day filter; the first k reads see the clock before a tick.  *)
Windows ==
    /\ pc = "windows"
    /\ \E k \in 0..5 :
         LET later == IF k < 5 /\ now < MaxClock THEN now + 1 ELSE now
             read(i) == IF i <= k THEN now ELSE later
             yesterday == DateOf(read(1)) - 1
             seven_days_ago == DateOf(read(2)) - 7
             one_month_ago == DateOf(read(3)) - 30
         IN  /\ last_30d_data' = DataFrame(Between(last_90d_data.rows, cStarts,
                                                   one_month_ago, DateOf(read(4))))
             /\ yesterday_data' = DataFrame(OnDay(last_90d_data.rows, cStarts, yesterday))
             /\ last_7_days_data' = DataFrame(Between(last_90d_data.rows, cStarts,
                                                      seven_days_ago, DateOf(read(5))))
             /\ now' = later
    /\ pc' = "mapping"
    /\ UNCHANGED <<upstream, sheet, cache, last_90d_data, mapping_ref, idx, dfs,
                   log>>

(* get_mapping_ref that answers a failure with a table without rows.       *)
get_mapping_refEmpty ==
    IF ~sheet.up
    THEN Returned(DataFrame(<<>>), <<Ev("error", 0, "Error accessing Google Sheets")>>)
    ELSE Returned(DataFrame(sheet.records), <<Ev("success", 0, "Opened the worksheet")>>)

(* get_mapping_ref: the worksheet's records as a table, or None with an     *)
(* error message when anything raised.                                      *)
get_mapping_ref ==
    IF ~sheet.up
    THEN Returned(None, <<Ev("error", 0, "Error accessing Google Sheets")>>)
    ELSE Returned(DataFrame(sheet.records), <<Ev("success", 0, "Opened the worksheet")>>)

GetMappingRef ==
    /\ pc = "mapping"
    /\ mapping_ref' = get_mapping_ref.value
    /\ log' = log \o get_mapping_ref.events
    /\ pc' = "join"
    /\ UNCHANGED <<upstream, sheet, now, cache, yesterday_data, last_7_days_data,
                   last_30d_data, last_90d_data, idx, dfs>>

AllPresent ==
    \A data \in {yesterday_data, last_7_days_data, last_30d_data, last_90d_data,
                 mapping_ref} : data # None

(* The join computed on the 90-day table only, the windows left as they     *)
(* were filtered.                                                           *)
JoinFullTableOnly ==
    /\ pc = "join"
    /\ AllPresent
    /\ mapping_ref.rows # <<>>
    /\ last_90d_data' = merge(last_90d_data, mapping_ref, JoinKeys)
    /\ pc' = "gate"
    /\ UNCHANGED <<upstream, sheet, now, cache, yesterday_data, last_7_days_data,
                   last_30d_data, mapping_ref, idx, dfs, log>>

(* The four left joins, when no table is None.                              *)
Join ==
    /\ pc = "join"
    /\ AllPresent
    /\ mapping_ref.rows # <<>>
    /\ yesterday_data' = merge(yesterday_data, mapping_ref, JoinKeys)
    /\ last_7_days_data' = merge(last_7_days_data, mapping_ref, JoinKeys)
    /\ last_30d_data' = merge(last_30d_data, mapping_ref, JoinKeys)
    /\ last_90d_data' = merge(last_90d_data, mapping_ref, JoinKeys)
    /\ pc' = "gate"
    /\ UNCHANGED <<upstream, sheet, now, cache, mapping_ref, idx, dfs, log>>

JoinSkipped ==
    /\ pc = "join"
    /\ ~AllPresent
    /\ pc' = "gate"
    /\ UNCHANGED <<upstream, sheet, now, cache, session, idx, dfs, log>>

(* An empty worksheet gives a table without columns: merge raises KeyError  *)
(* on the join keys, outside any try.                                       *)
JoinRaises ==
    /\ pc = "join"
    /\ AllPresent
    /\ mapping_ref.rows = <<>>
    /\ log' = Append(log, Ev("uncaught", 0, "KeyError"))
    /\ pc' = "idle"
    /\ UNCHANGED <<upstream, sheet, now, cache, session, idx, dfs>>

(* The display gate: with every table present, the renames, Revenue and     *)
(* the rounding of spend run (on every run), and the tabs follow.           *)
Derivation ==
    /\ pc = "gate"
    /\ AllPresent
    /\ yesterday_data' = Derive(yesterday_data)
    /\ last_7_days_data' = Derive(last_7_days_data)
    /\ last_30d_data' = Derive(last_30d_data)
    /\ last_90d_data' = Derive(last_90d_data)
    /\ pc' = "home"
    /\ UNCHANGED <<upstream, sheet, now, cache, mapping_ref, idx, dfs, log>>

GateClosed ==
    /\ pc = "gate"
    /\ ~AllPresent
    /\ log' = Append(log, Ev("warning", 0, "Unable to fetch all required data"))
    /\ pc' = "refresh"
    /\ UNCHANGED <<upstream, sheet, now, cache, session, idx, dfs>>

Shown(v) == IF v.error = "" THEN <<>> ELSE <<Ev("error", 0, v.error)>>

(* The widget values a run can meet in each tab.  Without the joined        *)
(* columns a tab stops before it draws a widget of those columns.           *)
HomeInputs ==
    IF Joined(last_90d_data) THEN Selections(last_90d_data.rows) ELSE {NoSelection}

ComparativeInputs ==
    LET rows == last_90d_data.rows
        one == AccountSelections(rows)
        any == IF Joined(last_90d_data) THEN Selections(rows) ELSE one
    IN  {p \in (any \X one) \cup (one \X any) : p[1][cAccount] = {} => p[2] = NoSelection}

(* The date inputs start at the last seven days; the user may widen them.   *)
ProductInputs ==
    LET rows == last_90d_data.rows
    IN  (IF Joined(last_90d_data) THEN ProductSelections(rows) ELSE AccountSelections(rows))
        \X {<<DateOf(now) - 7, DateOf(now)>>, <<DateOf(now) - 90, DateOf(now)>>}

TabHome ==
    /\ pc = "home"
    /\ \E sel \in HomeInputs : log' = log \o Shown(Home(sel))
    /\ pc' = "comparative"
    /\ UNCHANGED <<upstream, sheet, now, cache, session, idx, dfs>>

TabComparative ==
    /\ pc = "comparative"
    /\ \E p \in ComparativeInputs : log' = log \o Shown(Comparative(p[1], p[2]))
    /\ pc' = "product"
    /\ UNCHANGED <<upstream, sheet, now, cache, session, idx, dfs>>

TabProduct ==
    /\ pc = "product"
    /\ \E p \in ProductInputs :
         log' = log \o Shown(ProductCategory(p[1], p[2][1], p[2][2]))
    /\ pc' = "refresh"
    /\ UNCHANGED <<upstream, sheet, now, cache, session, idx, dfs>>

(* The Refresh Data button, rendered last.  Not pressed, the run ends;      *)
(* pressed, the cache is cleared, three session keys are deleted and the    *)
(* script is run again at once.                                             *)
RunEnds ==
    /\ pc = "refresh"
    /\ pc' = "idle"
    /\ log' = Append(log, Ev("button", 0, "Refresh Data"))
    /\ UNCHANGED <<upstream, sheet, now, cache, session, idx, dfs>>

(* A Refresh that leaves the cache as it is.                                *)
RefreshKeepingCache ==
    /\ pc = "refresh"
    /\ yesterday_data' = Absent
    /\ last_7_days_data' = Absent
    /\ last_90d_data' = Absent
    /\ log' = <<>>
    /\ idx' = 1
    /\ dfs' = <<>>
    /\ pc' = "fetch"
    /\ UNCHANGED <<upstream, sheet, now, cache, last_30d_data, mapping_ref>>

Refresh ==
    /\ pc = "refresh"
    /\ cache' = [a \in AccountIds |-> NoEntry]
    /\ yesterday_data' = Absent
    /\ last_7_days_data' = Absent
    /\ last_90d_data' = Absent
    /\ log' = <<>>
    /\ idx' = 1
    /\ dfs' = <<>>
    /\ pc' = "fetch"
    /\ UNCHANGED <<upstream, sheet, now, last_30d_data, mapping_ref>>

Next ==
    \/ Tick
    \/ NewSession
    \/ RunMain
    \/ FetchCached
    \/ FetchUpstream
    \/ Concat
    \/ ConcatRaises
    \/ Windows
    \/ GetMappingRef
    \/ Join
    \/ JoinSkipped
    \/ JoinRaises
    \/ Derivation
    \/ GateClosed
    \/ TabHome
    \/ TabComparative
    \/ TabProduct
    \/ RunEnds
    \/ Refresh

Spec == Init /\ [][Next]_vars

----------------------------------------------------------------------------
(* Properties.                                                              *)

Events(kind, acnt) == SelectSeq(log, LAMBDA e : e.ev = kind /\ e.acnt = acnt)
Fetched(a) == request_report(a, upstream[a], WaitSeconds).value
Windowed == <<yesterday_data, last_7_days_data, last_30d_data, last_90d_data>>
InTabs == pc \in {"home", "comparative", "product"}

(* C1: when at least one account's fetch gave a table, the merged table     *)
(* is the concatenation of the tables of the accounts that gave one, in     *)
(* the order of the account list and with each table's own row order; an    *)
(* account that gave None adds no row.                                      *)
C1_MergedIsConcatenation ==
    (pc = "windows" /\ \E a \in AccountIds : Fetched(a) # None) =>
        last_90d_data =
            DataFrame(Flatten([i \in 1..Len(Accounts) |->
                IF Fetched(Accounts[i]) = None THEN <<>>
                ELSE Fetched(Accounts[i]).rows]))

C1_Witness ==
    /\ pc = "windows"
    /\ Fetched(1) # None /\ Len(Fetched(1).rows) = 2
    /\ Fetched(2) # None
    /\ Fetched(3) = None
    /\ Len(last_90d_data.rows) = 3

KeyOf(r) == [i \in 1..Len(JoinKeys) |-> r[JoinKeys[i]]]
UniqueKeys(m) ==
    \A i, j \in 1..Len(m.rows) : i # j => KeyOf(m.rows[i]) # KeyOf(m.rows[j])
Unmatched(r, m) == \A j \in 1..Len(m.rows) : KeyOf(m.rows[j]) # KeyOf(r)
KeptByJoin(before, after, m) ==
    /\ Len(after.rows) = Len(before.rows)
    /\ \A i \in 1..Len(before.rows) :
         /\ \A c \in DOMAIN before.rows[i] : after.rows[i][c] = before.rows[i][c]
         /\ Unmatched(before.rows[i], m) =>
                \A c \in AttrCols : after.rows[i][c] = Null

RECURSIVE SumOver(_, _)
SumOver(groups, c) ==
    IF groups = {} THEN 0
    ELSE LET g == CHOOSE x \in groups : TRUE
         IN  g[c] + SumOver(groups \ {g}, c)

GroupingKeys == {{cDate}, {cCat}, {cDate, cCat}}
Absolutes == {cImpr, cClicks, cSpend, cRevenue}

(* C3: for the enriched table, for each filtered subset of it and for each  *)
(* grouping key of the dashboard (Date; Product Cat; Date and Product Cat), *)
(* the sums of impressions, clicks, spend and Revenue over the groups       *)
(* equal the totals of the ungrouped rows, rows with a null Product Cat     *)
(* included.                                                                *)
C3_GroupSumsEqualTotals ==
    (pc = "home" /\ Joined(last_90d_data)) =>
        \A t \in {last_90d_data.rows}
                 \cup {Home(sel).filtered_data : sel \in HomeInputs} :
            \A keys \in GroupingKeys, c \in Absolutes :
                SumOver(groupby(t, keys, {c}), c) = SumCol(t, c)

(* C4: in the Home and Comparative Views filters, whatever subsets are      *)
(* chosen for the nine dimensions, the filtered result is the rows of the   *)
(* base table whose value, in every dimension, is in the chosen subset or   *)
(* whose chosen subset is empty, and the daily metrics are produced; with   *)
(* every subset empty the result is the whole table.                        *)
C4_FilterIsConjunction ==
    LET rows == last_90d_data.rows
        expected(sel) ==
            SelectSeq(rows, LAMBDA r : \A c \in DimSet : sel[c] = {} \/ r[c] \in sel[c])
    IN  /\ (pc = "home" /\ Joined(last_90d_data)) =>
               \A sel \in HomeInputs :
                   /\ Home(sel).error = ""
                   /\ Home(sel).filtered_data = expected(sel)
        /\ (pc = "comparative" /\ Joined(last_90d_data)) =>
               \A p \in ComparativeInputs :
                   /\ Comparative(p[1], p[2]).error = ""
                   /\ Comparative(p[1], p[2]).filtered_data1 = expected(p[1])
                   /\ Comparative(p[1], p[2]).filtered_data2 = expected(p[2])

(* C5: after the derivation step, on the first run and on every rerun,      *)
(* every row of each window table has Revenue = round(purchase-ROAS factor  *)
(* times spend) for the spend the row holds.                                *)
C5_RevenueFromHeldSpend ==
    InTabs =>
        \A k \in 1..4 : \A i \in 1..Len(Windowed[k].rows) :
            LET r == Windowed[k].rows[i]
            IN  r[cRevenue] = 2 * RoundHalfEven(r[cRoas] * r[cSpend], 4)

Finite(cell) == cell[1] = "num"

(* C6: a group whose summed impressions are 0 (or whose summed spend is 0,  *)
(* for ROAS) gets the undefined sentinel in its CTR, CPM or ROAS cell in    *)
(* every place that shows them, never NaN or Infinity or their text.        *)
C6_NoNonFiniteCell ==
    /\ (pc = "home" /\ Joined(last_90d_data)) =>
          \A sel \in HomeInputs :
              /\ \A g \in Home(sel).daily_metrics :
                     Finite(g["CTR"]) /\ Finite(g["CPM"]) /\ Finite(g["ROAS"])
              /\ \A g \in Home(sel).tables.df_90_daywise : Finite(g["ROAS"])
    /\ (pc = "comparative" /\ Joined(last_90d_data)) =>
          \A p \in ComparativeInputs :
              \A g \in Comparative(p[1], p[2]).daily_metrics1
                       \cup Comparative(p[1], p[2]).daily_metrics2 :
                  Finite(g["CTR"]) /\ Finite(g["CPM"]) /\ Finite(g["ROAS"])
    /\ (pc = "product" /\ Joined(last_90d_data)) =>
          \A p \in ProductInputs :
              \A g \in ProductCategory(p[1], p[2][1], p[2][2]).product_metrics :
                  Finite(g["CTR"]) /\ Finite(g["CPM"]) /\ Finite(g["ROAS"])

(* C7: of the window tables built in one run, every row of the 7-day table  *)
(* is in the 30-day and in the 90-day table and every row of the yesterday  *)
(* table is in the 7-day table, also when the clock advances between the    *)
(* clock reads of main.                                                     *)
C7_WindowsNested ==
    pc = "mapping" =>
        /\ Range(last_7_days_data.rows) \subseteq Range(last_30d_data.rows)
        /\ Range(last_7_days_data.rows) \subseteq Range(last_90d_data.rows)
        /\ Range(yesterday_data.rows) \subseteq Range(last_7_days_data.rows)

(* C8: when every per-account fetch of a run fails, the run is not aborted: *)
(* no unhandled error leaves main, the absence of data is reported once as  *)
(* a handled condition, and no later stage runs on missing tables.          *)
C8_AllFailedIsHandled ==
    (\A a \in AccountIds : Fetched(a) = None) =>
        /\ Events("uncaught", 0) = <<>>
        /\ pc \notin {"windows", "mapping", "join", "home", "comparative", "product"}
        /\ (pc = "idle" /\ log # <<>>) => Len(Events("warning", 0)) = 1

Unjoined(df) ==
    df \in {Absent, None} \/ \A r \in Range(df.rows) : AttrCols \cap DOMAIN r = {}

(* C9: when get_mapping_ref fails it returns None instead of raising; main  *)
(* then skips the four joins, does not crash, draws no tab and shows the    *)
(* unable-to-fetch warning, on the first run and on the reruns that follow. *)
C9_MappingUnavailable ==
    /\ (pc = "join" /\ ~sheet.up) => mapping_ref = None
    /\ mapping_ref = None =>
         /\ ~InTabs
         /\ \A k \in 1..4 : Unjoined(Windowed[k])
         /\ Events("uncaught", 0) = <<>>
         /\ pc \in {"refresh", "idle"} =>
               /\ Len(Events("warning", 0)) = 1
               /\ \A i \in 1..Len(log) : log[i].ev = "error" => log[i].arg # "KeyError"

(* A rerun of a session whose mapping reference is None has shown the       *)
(* warning: the run did not fetch, and the button has been drawn.           *)
C9_Witness ==
    /\ mapping_ref = None
    /\ pc = "idle"
    /\ last_90d_data.rows # <<>>
    /\ Events("warning", 0) # <<>>
    /\ \A a \in AccountIds : Events("post", a) = <<>> /\ Events("cached", a) = <<>>
    /\ Events("button", 0) # <<>>

(* C10: an uncached request_report makes exactly one create-report call     *)
(* and never repeats it; when the answer carries an error, or neither an    *)
(* error nor a job id, the call ends as a failed request showing the        *)
(* upstream error (or the missing job id), and neither the wait nor the     *)
(* export call is made.                                                     *)
C10_OneCreateCallNoRetry ==
    \A i \in 1..(idx - 1) :
        LET a == Accounts[i]
            uncached == Events("cached", a) = <<>>
            said(msg) == \E e \in Range(Events("error", a)) : e.arg = msg
        IN  /\ Len(Events("post", a)) = IF uncached THEN 1 ELSE 0
            /\ (uncached /\ upstream[a].create # "job") =>
                  /\ Events("sleep", a) = <<>>
                  /\ Events("get", a) = <<>>
                  /\ Len(Events("error", a)) = 1
                  /\ cache[a].value = None
                  /\ upstream[a].create = "error" => said("Facebook API Error")
                  /\ upstream[a].create = "nojob" => said("No report_run_id received")

C10_Witness ==
    /\ idx > Len(Accounts)
    /\ upstream[1].create = "nojob"
    /\ upstream[3].create = "error"
    /\ upstream[2].create = "job"
    /\ \A a \in AccountIds : Len(Events("post", a)) = 1
    /\ Events("get", 2) # <<>>

(* The place in the log of the first event of a kind for an account.        *)
FirstAt(kind, acnt) ==
    CHOOSE i \in 1..Len(log) :
        /\ log[i].ev = kind /\ log[i].acnt = acnt
        /\ \A j \in 1..(i - 1) : ~(log[j].ev = kind /\ log[j].acnt = acnt)

(* C11: download_report sleeps for the whole wait before its export call,   *)
(* makes one export call at most, and on a status other than 200 shows the  *)
(* download error with that status, makes no second call and returns no     *)
(* payload.                                                                 *)
C11_WaitThenOneExportCall ==
    \A i \in 1..(idx - 1) :
        LET a == Accounts[i]
        IN  (Events("cached", a) = <<>> /\ upstream[a].create = "job") =>
               /\ Len(Events("sleep", a)) = 1
               /\ Len(Events("get", a)) = 1
               /\ log[FirstAt("sleep", a)].arg = WaitSeconds
               /\ FirstAt("get", a) = FirstAt("sleep", a) + 1
               /\ upstream[a].status # 200 =>
                     /\ log[FirstAt("get", a) + 1] = StatusError(a, upstream[a].status)
                     /\ cache[a].value = None
                     /\ \A k \in 1..Len(dfs) :
                            \A r \in Range(dfs[k].rows) : r[cAccount] # AccountName(a)

C11_Witness ==
    /\ idx > Len(Accounts)
    /\ pc = "windows"
    /\ upstream[2].create = "job" /\ upstream[2].status = 500
    /\ upstream[1].create = "job" /\ upstream[1].status = 200
    /\ Len(Events("get", 2)) = 1 /\ Len(Events("get", 1)) = 1
    /\ cache[1].value # None

(* The fetch of a run started by Refresh: the keys Refresh deletes are      *)
(* gone, the keys it leaves are still in the session.                       *)
AfterRefresh ==
    pc = "fetch" /\ yesterday_data = Absent /\ mapping_ref # Absent

(* C12: a create-report call for an account is made only when the cache     *)
(* holds no entry for it younger than the ttl; Refresh empties the cache    *)
(* and deletes the session tables that guard the fetch, and the run that    *)
(* follows makes the create-report call for every account, also inside      *)
(* the ttl.                                                                 *)
C12_CacheGuardsCreateCall ==
    [][/\ \A a \in AccountIds :
            (pc = "fetch" /\ pc' = "fetch"
             /\ Len(SelectSeq(log', LAMBDA e : e.ev = "post" /\ e.acnt = a))
                    > Len(Events("post", a)))
                => (cache[a] = NoEntry \/ now - cache[a].at >= TTL)
       /\ Refresh =>
            /\ \A a \in AccountIds : cache'[a] = NoEntry
            /\ yesterday_data' = Absent
            /\ last_7_days_data' = Absent
            /\ last_90d_data' = Absent
       /\ AfterRefresh' =>
            \A i \in 1..(idx' - 1) :
                /\ Len(SelectSeq(log', LAMBDA e :
                           e.ev = "post" /\ e.acnt = Accounts[i])) = 1
                /\ SelectSeq(log', LAMBDA e :
                       e.ev = "cached" /\ e.acnt = Accounts[i]) = <<>>]_vars

(* Every account fetched again after a Refresh, the clock not having moved  *)
(* since the first fetch.                                                   *)
C12_Witness ==
    /\ AfterRefresh
    /\ now = 0
    /\ idx > Len(Accounts)
    /\ \A a \in AccountIds : Len(Events("post", a)) = 1 /\ cache[a] # NoEntry

Enriched(df) == \A r \in Range(df.rows) : cRevenue \in DOMAIN r
SameMoney(before, after) ==
    /\ Len(after.rows) = Len(before.rows)
    /\ \A i \in 1..Len(before.rows) :
         /\ after.rows[i][cSpend] = before.rows[i][cSpend]
         /\ after.rows[i][cRevenue] = before.rows[i][cRevenue]

(* C13: once the first run has added Revenue and rounded spend, a rerun     *)
(* of main without Refresh leaves the spend and the Revenue of every row    *)
(* of the four session tables as they were, and the daily metrics of a      *)
(* selection with them.                                                     *)
C13_DerivedOncePerSession ==
    [][(Derivation /\ \A k \in 1..4 : Enriched(Windowed[k])) =>
          /\ SameMoney(yesterday_data, yesterday_data')
          /\ SameMoney(last_7_days_data, last_7_days_data')
          /\ SameMoney(last_30d_data, last_30d_data')
          /\ SameMoney(last_90d_data, last_90d_data')]_vars

(* The calls to the ads API and to the spreadsheet service in a log.        *)
Calls(l) ==
    SelectSeq(l, LAMBDA e :
        \/ e.ev \in {"post", "sleep", "get", "success"}
        \/ e.ev = "error" /\ e.acnt = 0 /\ e.arg = "Error accessing Google Sheets")
Displaying == pc \in {"gate", "home", "comparative", "product", "refresh"}

(* C14: building the yesterday, 7-day and 30-day windows makes no call to   *)
(* the ads API, and a run of main that finds the session tables present     *)
(* makes no create-report call, no export call and no fetch of the mapping  *)
(* reference.                                                               *)
C14_RerunMakesNoCall ==
    [][/\ Windows => Calls(log') = Calls(log)
       /\ (pc = "idle" /\ pc' # "idle" /\ yesterday_data # Absent) =>
             (Displaying' /\ Calls(log') = <<>>)
       /\ (Displaying /\ Displaying') => Calls(log') = Calls(log)
       /\ (Displaying /\ pc' = "idle") => Calls(log') = Calls(log)]_vars

(* The end of a rerun that drew the tabs and called nothing.                *)
C14_Witness ==
    /\ pc = "idle"
    /\ idx = 1
    /\ last_90d_data.rows # <<>>
    /\ Joined(last_90d_data)
    /\ Events("button", 0) # <<>>
    /\ Calls(log) = <<>>
    /\ \A a \in AccountIds : Events("cached", a) = <<>>

(* sel2 is sel1 with the empty list of one dimension made non-empty.        *)
Restricts(sel2, sel1) ==
    \E c \in DimSet :
        /\ sel1[c] = {} /\ sel2[c] # {}
        /\ \A d \in DimSet \ {c} : sel2[d] = sel1[d]

(* C15: in the Home, Comparative Views and Product-Category filters,        *)
(* making the empty list of one dimension non-empty, the other selections   *)
(* unchanged, never gives a filtered result with more rows.                 *)
C15_RestrictionNeverAddsRows ==
    /\ (pc = "home" /\ Joined(last_90d_data)) =>
          \A s1, s2 \in HomeInputs :
              (Restricts(s2, s1) /\ Home(s1).error = "" /\ Home(s2).error = "") =>
                  Len(Home(s2).filtered_data) <= Len(Home(s1).filtered_data)
    /\ (pc = "comparative" /\ Joined(last_90d_data)) =>
          \A p, q \in ComparativeInputs :
              (/\ Restricts(q[1], p[1]) /\ q[2] = p[2]
               /\ Comparative(p[1], p[2]).error = ""
               /\ Comparative(q[1], q[2]).error = "") =>
                  Len(Comparative(q[1], q[2]).filtered_data1)
                      <= Len(Comparative(p[1], p[2]).filtered_data1)
    /\ (pc = "product" /\ Joined(last_90d_data)) =>
          \A p, q \in ProductInputs :
              (/\ Restricts(q[1], p[1]) /\ q[2] = p[2]
               /\ ProductCategory(p[1], p[2][1], p[2][2]).error = ""
               /\ ProductCategory(q[1], q[2][1], q[2][2]).error = "") =>
                  Len(ProductCategory(q[1], q[2][1], q[2][2]).filtered_data_1)
                      <= Len(ProductCategory(p[1], p[2][1], p[2][2]).filtered_data_1)

(* C16: in the Product-Category View an empty list of product categories    *)
(* restricts nothing: with no category chosen the filtered result holds     *)
(* every row that passes the account, campaign and date-range tests.        *)
C16_EmptyCategoryListIsUnrestricted ==
    (pc = "product" /\ Joined(last_90d_data)) =>
        \A p \in ProductInputs :
            LET sel == p[1]
                shown == ProductCategory(sel, p[2][1], p[2][2])
            IN  (sel[cCat] = {} /\ shown.error = "") =>
                    shown.filtered_data_1 =
                        SelectSeq(last_90d_data.rows, LAMBDA r :
                            /\ sel[cAccount] = {} \/ r[cAccount] \in sel[cAccount]
                            /\ sel[cCampaign] = {} \/ r[cCampaign] \in sel[cCampaign]
                            /\ r[cDate] >= p[2][1] /\ r[cDate] <= p[2][2])

(* The rows that pass the selections made on the dimensions before the      *)
(* k-th of the filter order.                                                *)
PassingEarlier(rows, sel, k) ==
    SelectSeq(rows, LAMBDA r :
        \A j \in 1..(k - 1) : sel[Dims[j]] = {} \/ r[Dims[j]] \in sel[Dims[j]])

(* C17: for every dimension of the filter order, the values offered are     *)
(* the distinct values of that dimension among the rows that pass the       *)
(* selections already made on all the dimensions before it.                 *)
C17_OptionsFollowEarlierSelections ==
    (pc = "home" /\ Joined(last_90d_data)) =>
        \A sel \in HomeInputs :
            sel[cAccount] # {} =>
                \A k \in 1..Len(Dims) :
                    Options(last_90d_data.rows, sel, Dims[k])
                        = {r[Dims[k]] : r \in Range(PassingEarlier(last_90d_data.rows, sel, k))}

(* C18: for Account, Campaign, Ad Set and Ad, the candidate list computed   *)
(* under any selection on the dimensions before it is a subset of the       *)
(* candidate list computed for it with no selection on them.                *)
C18_CascadedOptionsWithinUnrestricted ==
    (pc = "home" /\ Joined(last_90d_data)) =>
        \A sel \in HomeInputs : \A k \in 1..Len(Cascaded) :
            LET rows == last_90d_data.rows
                unrestricted == Offered(rows, NoSelection, k)
                restricted == Offered(rows, sel, k)
            IN  /\ unrestricted.error = ""
                /\ restricted.error = "" => restricted.values \subseteq unrestricted.values

WellFormed(lines) == SelectSeq(lines, LAMBDA r : DOMAIN r = ReportHeader)

(* C19: for an export of a header and N data lines of which one has the     *)
(* wrong number of fields, more or fewer than the header,                   *)
(* parse_csv_content returns the table of the N-1 well-formed lines and     *)
(* one warning is recorded.                                                 *)
C19_OneBadLineIsSkipped ==
    \A i \in 1..(idx - 1) :
        LET a == Accounts[i]
            lines == upstream[a].payload.rows
            parsed == parse_csv_content(a, upstream[a].payload)
        IN  (/\ Events("get", a) # <<>> /\ upstream[a].status = 200
             /\ Len(WellFormed(lines)) + 1 = Len(lines)) =>
                /\ parsed.value = DataFrame(WellFormed(lines))
                /\ Len(parsed.events) = 1
                /\ Len(Events("ParserWarning", a)) = 1

(* C20: before any metric is derived, every numeric column of a parsed      *)
(* report has been coerced to numbers, a value that fails the coercion      *)
(* becoming missing; this holds for the columns under the header names      *)
(* main reads ('Impressions', 'Link clicks', 'Amount spent (INR)').         *)
C20_NumericColumnsCoerced ==
    \A a \in AccountIds :
        \A r \in Range(cache[a].value.rows) :
            \A c \in {cImpr, cLinkClicks, cAmount} : r[c] # Unparsable

(* The error messages a fetch of account a shows when each boundary reports *)
(* its own failure and nothing else.                                        *)
OwnFailure(a) ==
    LET resp == upstream[a]
    IN  IF resp.create = "error" THEN <<Ev("error", a, "Facebook API Error")>>
        ELSE IF resp.create # "job" THEN <<Ev("error", a, "No report_run_id received")>>
        ELSE IF resp.status # 200 THEN <<StatusError(a, resp.status)>>
        ELSE IF resp.payload = Blank THEN <<Ev("error", a, "Received empty CSV content")>>
        ELSE <<>>

(* C21: a failure at one boundary is reported as that boundary's failure    *)
(* and as no other: an account whose export call gives a status other than  *)
(* 200 shows the download error and no parse error; a failed request and a  *)
(* failed parse likewise show their own message only.                       *)
C21_FailureReportedUnderOwnMessage ==
    \A i \in 1..(idx - 1) :
        LET a == Accounts[i]
        IN  Events("cached", a) = <<>> => Events("error", a) = OwnFailure(a)

(* C22: the 90-day table of the session holds only rows dated within the    *)
(* 90 days up to the day of the run (anchor - 90 < d <= anchor), as the     *)
(* 7-day and the 30-day table are bounded, whatever dates the upstream      *)
(* reports hold.                                                            *)
C22_NinetyDayTableBounded ==
    pc = "mapping" =>
        \E anchor \in {DateOf(now) - 1, DateOf(now)} :
            \A r \in Range(last_90d_data.rows) :
                r[cStarts] > anchor - 90 /\ r[cStarts] <= anchor

(* The clock values the reads of one run can have seen, the run ending at   *)
(* the present clock.                                                       *)
ClockReads == {IF now > 0 THEN now - 1 ELSE now, now}

(* The rows of a table dated after one day and up to another, in place.     *)
DatedWithin(df, after, upto) ==
    DataFrame(SelectSeq(df.rows, LAMBDA r : after < r[cStarts] /\ r[cStarts] <= upto))

(* C23: joining each window by itself gives what joining once and then      *)
(* windowing gives: after the joins, the yesterday, the 7-day and the       *)
(* 30-day table each hold the rows of the joined 90-day table whose date    *)
(* is in that window, as many times and in the same order, for any mapping  *)
(* reference.                                                               *)
C23_JoinCommutesWithWindows ==
    [][Join =>
          \E t1, t2, t3, t4, t5 \in ClockReads :
              /\ t1 <= t2 /\ t2 <= t3 /\ t3 <= t4 /\ t4 <= t5
              /\ yesterday_data' =
                     DatedWithin(last_90d_data', DateOf(t1) - 2, DateOf(t1) - 1)
              /\ last_7_days_data' =
                     DatedWithin(last_90d_data', DateOf(t2) - 7, DateOf(t5))
              /\ last_30d_data' =
                     DatedWithin(last_90d_data', DateOf(t3) - 30, DateOf(t4))]_vars

(* The joins done against a worksheet with a repeated key: a row of the     *)
(* yesterday table appears once per match, and the 90-day table holds a     *)
(* row of another day, without a match.                                     *)
C23_Witness ==
    /\ pc = "gate"
    /\ sheet = SheetDuplicate
    /\ Joined(last_90d_data)
    /\ Len(yesterday_data.rows) >= 3
    /\ Len(last_90d_data.rows) > Len(yesterday_data.rows)
    /\ \E i \in 1..Len(last_90d_data.rows) : last_90d_data.rows[i][cCat] = Null

PlaceOf(a) == CHOOSE i \in 1..Len(Accounts) : Accounts[i] = a

(* C24: the account loop is sequential: the calls of a run are made in the  *)
(* order of the account list, the create-report call of an account comes    *)
(* after the wait and the export call of the account before it, and the     *)
(* waits of two accounts never overlap.                                     *)
C24_AccountLoopSequential ==
    /\ \A i, j \in 1..Len(log) :
           (i < j /\ log[i].acnt # 0 /\ log[j].acnt # 0) =>
               /\ PlaceOf(log[i].acnt) <= PlaceOf(log[j].acnt)
               /\ PlaceOf(log[j].acnt) < idx
    /\ \A a \in AccountIds :
           Events("sleep", a) # <<>> =>
               /\ Events("post", a) # <<>> /\ Events("get", a) # <<>>
               /\ FirstAt("post", a) < FirstAt("sleep", a)
               /\ FirstAt("get", a) = FirstAt("sleep", a) + 1
               /\ \A b \in AccountIds :
                      (PlaceOf(b) > PlaceOf(a) /\ Events("post", b) # <<>>) =>
                          FirstAt("post", b) > FirstAt("get", a)

(* Three accounts fetched in one run, each with its own wait.               *)
C24_Witness ==
    /\ pc = "windows"
    /\ \A a \in AccountIds : Len(Events("sleep", a)) = 1
    /\ FirstAt("post", 2) > FirstAt("get", 1)
    /\ FirstAt("post", 3) > FirstAt("get", 2)

(* The daily metrics of a tab as (date, CTR, CPM, ROAS) in hundredths.      *)
InHundredths(metrics) ==
    {<<g[cDate], g["CTR"][2], g["CPM"][2], g["ROAS"][2]>> : g \in metrics}

(* C25: with account A returning two rows (impressions 1000 and 2000,       *)
(* clicks 10 and 30, spend 100 and 200, ROAS factor 2 and 3) and the other  *)
(* fetches failing, the merged table is A's two rows, Revenue is 200 and    *)
(* 600, and the metrics grouped by date are CTR 1.0 and 1.5, CPM 100 and    *)
(* 100, ROAS 2.0 and 3.0.                                                   *)
C25_EndToEndScenario ==
    upstream[1] = Report(ScenarioRows) =>
        /\ pc = "windows" => last_90d_data = DataFrame(ScenarioRows)
        /\ pc = "home" =>
              /\ [i \in 1..Len(last_90d_data.rows) |-> last_90d_data.rows[i][cRevenue]]
                     = <<2 * 200, 2 * 600>>
              /\ \A sel \in HomeInputs :
                     (\A c \in DimSet : sel[c] = {}) =>
                         /\ Home(sel).error = ""
                         /\ InHundredths(Home(sel).daily_metrics)
                                = {<<-2, 100, 10000, 200>>, <<-1, 150, 10000, 300>>}

(* C26: every run of main ends with the Refresh Data button drawn, the      *)
(* runs whose data acquisition failed included: after a run in which every  *)
(* account's fetch failed the button is there to clear the cache and fetch  *)
(* again.                                                                   *)
C26_RefreshAlwaysReached ==
    (pc = "idle" /\ log # <<>>) => Events("button", 0) # <<>>

RowsOf(df, a) == SelectSeq(df.rows, LAMBDA r : r[cAccount] = AccountName(a))

(* C27: a failed fetch is memoized as a successful one is: while the entry  *)
(* of an account whose fetch gave no table is younger than the ttl and no   *)
(* Refresh has cleared it, a run that asks for the account gets the         *)
(* no-table result from the cache, makes no call upstream, and the merge    *)
(* of that run holds no row of the account.                                 *)
C27_FailureIsMemoized ==
    [][/\ \A a \in AccountIds :
            (/\ pc = "fetch" /\ idx <= Len(Accounts) /\ idx' = idx + 1
             /\ Accounts[idx] = a
             /\ cache[a] # NoEntry /\ cache[a].value = None
             /\ now - cache[a].at < TTL)
                => /\ Calls(log') = Calls(log)
                   /\ cache' = cache
                   /\ dfs' = dfs
       /\ Concat =>
            \A a \in AccountIds :
                (Events("cached", a) # <<>> /\ cache[a].value = None) =>
                    RowsOf(last_90d_data', a) = <<>>]_vars

(* A later session inside the ttl: account 1's failure and account 2's      *)
(* table both come from the cache, and the merge holds account 2 only.      *)
C27_Witness ==
    /\ pc = "windows"
    /\ now > cache[1].at
    /\ \A a \in AccountIds : Events("cached", a) # <<>>
    /\ cache[1].value = None /\ upstream[1].create = "job"
    /\ cache[2].value # None
    /\ RowsOf(last_90d_data, 2) # <<>>

(* C28: in every run that reaches the display stage, each of the four       *)
(* window tables of the session has been left-joined with the mapping       *)
(* reference exactly once since it was fetched: the joins are applied to    *)
(* tables not joined before, and the display starts on joined tables only.  *)
C28_JoinedExactlyOnce ==
    [][/\ Join => \A k \in 1..4 : Unjoined(Windowed[k])
       /\ Derivation =>
            \A df \in {yesterday_data, last_7_days_data, last_30d_data,
                       last_90d_data} :
                df.rows # <<>> => Joined(df)]_vars

====
